---- MODULE Spec2Model ----
(***************************************************************************)
(* The ROI monitors of binance-trading-app: monitor_sqdusdt.py (variant    *)
(* "basic"), monitor_sqdusdt_live.py (variant "live") and the one-shot     *)
(* report roi_monitor.py.  A run is one execution of main() of one         *)
(* variant.  ROI values are integers in hundredths of a percent            *)
(* (800 = 8.00%); prices and quantities are integers.  A Python value that *)
(* may be None is a sequence: <<>> is None and <<x>> is the value x.       *)
(***************************************************************************)
EXTENDS Integers, Sequences, FiniteSets, TLC

VARIABLES variant, pc, now, log, data, sqdusdt_pos, roi, threshold,
          roi_history, last_roi, position_closed, out, summary, okTicks, idx,
          args, result

vars == <<variant, pc, now, log, data, sqdusdt_pos, roi, threshold,
          roi_history, last_roi, position_closed, out, summary, okTicks,
          idx, args, result>>

None == <<>>
Some(x) == <<x>>
Truthy(opt) == opt # None /\ opt[1] # 0

(***************************************************************************)
(* Bounds of the model.                                                    *)
(***************************************************************************)
\* Session limit of the basic monitor, in seconds (3600 in the source,
\* scaled down so that a run is a handful of ticks).
MAX_MONITORING_TIME == 20
\* Samples a run records before the snapshot source stops showing the symbol.
MaxHistory == 3

(***************************************************************************)
(* Program constants.                                                      *)
(***************************************************************************)
FEE_NUM == 4
FEE_DEN == 10000
CHECK_INTERVAL == 10
LIVE_CHECK_INTERVAL == 5
HIT_SLEEP == 5
LOG_WINDOW == 500
SUMMARY_LIMIT == 10
DEFAULT_THRESHOLD == 800
THRESHOLD == 800

\* The clock counts the seconds since start_time up to ClockCap, a value past
\* the session limit; now = ClockCap stands for that time and any later one.
ClockCap == MAX_MONITORING_TIME + CHECK_INTERVAL
Min(a, b) == IF a < b THEN a ELSE b
Advance(t, d) == Min(t + d, ClockCap)

(***************************************************************************)
(* ThresholdPolicy: the tables of the three scripts.                       *)
(***************************************************************************)
THRESHOLDS_roi_monitor ==
  [ultra_fast |-> 300, scalp |-> 500, swing |-> 800, position |-> 1000]

THRESHOLDS_basic == [swing |-> 800]

\* dict.get(mode, 8.0)
DictGet(table, key, default) ==
  IF key \in DOMAIN table THEN table[key] ELSE default

threshold_roi_monitor(mode) ==
  DictGet(THRESHOLDS_roi_monitor, mode, DEFAULT_THRESHOLD)

threshold_basic(mode) == DictGet(THRESHOLDS_basic, mode, DEFAULT_THRESHOLD)

\* The live monitor compares against the module constant, whatever the mode.
threshold_live(mode) == THRESHOLD

(***************************************************************************)
(* ROICalculator.  net_pnl is kept in units of 1/FEE_DEN.  The ROI is      *)
(* net_pnl * leverage / notional * 100 percent; in hundredths of a percent *)
(* the factor 100 * 100 cancels the unit 1/FEE_DEN of net_pnl, and the     *)
(* result is rounded down.                                                 *)
(***************************************************************************)
GrossPnl(entry, current, qty, side) ==
  IF side = "LONG" THEN (current - entry) * qty ELSE (entry - current) * qty

NetPnlScaled(entry, current, qty, side) ==
  GrossPnl(entry, current, qty, side) * FEE_DEN
    - (qty * entry * FEE_NUM + current * qty * FEE_NUM)

calculate_roi(entry, current, qty, side, leverage) ==
  LET notional == qty * entry
      net_pnl  == NetPnlScaled(entry, current, qty, side)
  IN  IF notional <= 0 THEN 0
      ELSE (net_pnl * leverage) \div notional

\* Variants of calculate_roi with a plausible slip each: the fee charged on
\* the entry leg only; net_pnl not zeroed when the notional is not positive;
\* no fee at all.
calculate_roi_entry_fee_only(entry, current, qty, side, leverage) ==
  LET notional == qty * entry
      net_pnl  == GrossPnl(entry, current, qty, side) * FEE_DEN
                    - qty * entry * FEE_NUM
  IN  IF notional <= 0 THEN [roi |-> 0, net_pnl |-> 0]
      ELSE [roi |-> (net_pnl * leverage) \div notional, net_pnl |-> net_pnl]

calculate_roi_keeps_net_pnl(entry, current, qty, side, leverage) ==
  LET notional == qty * entry
      net_pnl  == NetPnlScaled(entry, current, qty, side)
  IN  IF notional <= 0 THEN [roi |-> 0, net_pnl |-> net_pnl]
      ELSE [roi |-> (net_pnl * leverage) \div notional, net_pnl |-> net_pnl]

calculate_roi_no_fees(entry, current, qty, side, leverage) ==
  LET notional == qty * entry
      net_pnl  == GrossPnl(entry, current, qty, side) * FEE_DEN
  IN  IF notional <= 0 THEN [roi |-> 0, net_pnl |-> 0]
      ELSE [roi |-> (net_pnl * leverage) \div notional, net_pnl |-> net_pnl]

\* float(leverage): the double nearest to the number.  Every integer up to
\* 2^53 in magnitude is a double, so the value of a leverage is kept.
float(x) == x

\* A variant with a plausible slip: the leverage is left out.
calculate_roi_live_unleveraged(entry, current, qty, side, leverage) ==
  LET notional == qty * entry
  IN  IF notional <= 0 THEN 0
      ELSE NetPnlScaled(entry, current, qty, side) \div notional

\* monitor_sqdusdt_live.py: the same computation with float(leverage).
calculate_roi_live(entry, current, qty, side, leverage) ==
  LET notional == qty * entry
  IN  IF notional <= 0 THEN 0
      ELSE (NetPnlScaled(entry, current, qty, side) * float(leverage))
             \div notional

\* roi_monitor.py: the same computation, returning (roi, net_pnl), and (0, 0)
\* when the notional is not positive.
calculate_roi_roi_monitor(entry, current, qty, side, leverage) ==
  LET notional == qty * entry
      net_pnl  == NetPnlScaled(entry, current, qty, side)
  IN  IF notional <= 0 THEN [roi |-> 0, net_pnl |-> 0]
      ELSE [roi |-> (net_pnl * leverage) \div notional, net_pnl |-> net_pnl]

(***************************************************************************)
(* Inputs: position records, snapshots, log files.                         *)
(***************************************************************************)
AllFields == {"symbol", "entry_price", "highest_price", "remaining_qty",
              "side", "leverage", "mode"}

\* A position record of the snapshot; has is the set of keys it carries.
Pos(sym, high, qty, mode, has) ==
  [symbol |-> sym, entry_price |-> 2499, highest_price |-> high,
   remaining_qty |-> qty, side |-> "LONG", leverage |-> 1, mode |-> mode,
   has |-> has]

PNeg  == Pos("SQDUSDT", 2499, 1, "swing", AllFields)     \* ROI -0.08%
PZero == Pos("SQDUSDT", 2499, 0, "swing", AllFields)     \* notional 0
PMid  == Pos("SQDUSDT", 2651, 1, "scalp", AllFields)     \* ROI 6.00%
PHit  == Pos("SQDUSDT", 2701, 1, "swing", AllFields)     \* ROI 8.00%
POver == Pos("SQDUSDT", 2751, 1, "unknown", AllFields)   \* ROI 10.00%
POther == Pos("BTCUSDT", 2751, 1, "swing", AllFields)
PNoSymbol == Pos("SQDUSDT", 2499, 1, "swing", AllFields \ {"symbol"})
PNoMode == Pos("SQDUSDT", 2651, 1, "swing", AllFields \ {"mode"})
PNoEntry == Pos("SQDUSDT", 2651, 1, "swing", AllFields \ {"entry_price"})

TrackedPositions == {PNeg, PZero, PMid, PHit, POver}

\* What get_positions returns: None on any failure, else the parsed body.
Snapshot(positions) == Some([positions |-> positions])

PresentSnapshots ==
  {Snapshot(<<p>>) : p \in TrackedPositions}
    \cup {Snapshot(<<POther, PMid, PHit>>), Snapshot(<<POver, PNeg>>)}

AbsentSnapshots == {Snapshot(<<>>), Snapshot(<<POther>>)}

MalformedSnapshots ==
  {Snapshot(<<PNoSymbol>>), Snapshot(<<PNoMode>>), Snapshot(<<PNoEntry>>)}

\* A log line: parse (json.loads gives an object with a fields object),
\* symbol (fields.symbol), mentions ('SQDUSDT' occurs in the text), phrase
\* (the closure phrase the text carries), symFirst (the symbol text comes
\* before the phrase in the line).
Line(parse, symbol, mentions, phrase, symFirst) ==
  [parse |-> parse, symbol |-> symbol, mentions |-> mentions,
   phrase |-> phrase, symFirst |-> symFirst]

FullCloseLine == Line(TRUE, "SQDUSDT", TRUE, "full close order placed", FALSE)
ClosingLine   == Line(TRUE, "SQDUSDT", TRUE, "Ginie closing position", FALSE)
BookingLine   == Line(TRUE, "SQDUSDT", TRUE, "booking profit", TRUE)
MentionLine   == Line(TRUE, "BTCUSDT", TRUE, "booking profit", TRUE)
OtherLine     == Line(TRUE, "BTCUSDT", FALSE, "full close order placed", FALSE)

LogFile(readable, lines) == [readable |-> readable, lines |-> lines]

Logs == {LogFile(FALSE, <<>>), LogFile(TRUE, <<>>),
         LogFile(TRUE, <<OtherLine>>),
         LogFile(TRUE, <<FullCloseLine, OtherLine>>),
         LogFile(TRUE, <<FullCloseLine, ClosingLine>>),
         LogFile(TRUE, <<BookingLine>>),
         LogFile(TRUE, <<MentionLine>>)}

(***************************************************************************)
(* Events written to the report sink (the scripts' print calls).           *)
(***************************************************************************)
\* An event carries its kind, the ROI it prints, the gap, threshold or
\* overshoot it prints (aux) and the progress percentage it prints.
EvP(kind, r, aux, progress) ==
  [kind |-> kind, roi |-> r, aux |-> aux, progress |-> progress]
Ev(kind, r, aux) == EvP(kind, r, aux, None)
E0(kind) == Ev(kind, None, None)
Kinds(events) == {events[i].kind : i \in DOMAIN events}

(***************************************************************************)
(* Helpers of the scripts.                                                 *)
(***************************************************************************)
RoiFields == {"entry_price", "highest_price", "remaining_qty", "side",
              "leverage"}

\* The same loop without its return / break: the last match wins.
RECURSIVE FindFrom_last(_, _)
FindFrom_last(positions, i) ==
  IF i > Len(positions) THEN [status |-> "none", pos |-> None]
  ELSE IF "symbol" \notin positions[i].has
       THEN [status |-> "KeyError", pos |-> None]
  ELSE LET rest == FindFrom_last(positions, i + 1)
       IN  IF rest.status # "none" THEN rest
           ELSE IF positions[i].symbol = "SQDUSDT"
           THEN [status |-> "found", pos |-> Some(positions[i])]
           ELSE rest

\* The loop "for pos in positions: if pos['symbol'] == 'SQDUSDT'": the first
\* match, None when there is none, KeyError on a record without 'symbol'
\* met before a match.
RECURSIVE FindFrom(_, _)
FindFrom(positions, i) ==
  IF i > Len(positions) THEN [status |-> "none", pos |-> None]
  ELSE IF "symbol" \notin positions[i].has
       THEN [status |-> "KeyError", pos |-> None]
  ELSE IF positions[i].symbol = "SQDUSDT"
       THEN [status |-> "found", pos |-> Some(positions[i])]
  ELSE FindFrom(positions, i + 1)

find_sqdusdt_position(d) ==
  IF d = None THEN [status |-> "none", pos |-> None]
  ELSE FindFrom(d[1].positions, 1)

RoiOf_live(pos) ==
  calculate_roi_live(pos.entry_price, pos.highest_price, pos.remaining_qty,
                     pos.side, pos.leverage)

\* list.insert(0, x), a plausible slip for list.append(x).
append_front(history, sample) == <<sample>> \o history

\* roi_progression.append(...) / roi_history.append(roi)
append(history, sample) == Append(history, sample)

RoiOf(pos) ==
  calculate_roi(pos.entry_price, pos.highest_price, pos.remaining_qty,
                pos.side, pos.leverage)

\* lines[-n:]
LastN(lines, n) ==
  SubSeq(lines, IF Len(lines) > n THEN Len(lines) - n + 1 ELSE 1, Len(lines))

\* check_logs_for_success, the body of the for loop: what one line returns,
\* success "False" when the loop goes on to the next line.
ScanLine(line) ==
  LET parsed == line.parse /\ line.symbol = "SQDUSDT"
  IN  IF line.phrase = "full close order placed" /\ line.mentions /\ parsed
      THEN [success |-> "True", log_data |-> Some(line)]
      ELSE IF line.phrase = "Ginie closing position" /\ line.mentions
              /\ parsed
      THEN [success |-> "closing", log_data |-> Some(line)]
      ELSE [success |-> "False", log_data |-> None]

\* A variant of the scan with a plausible slip: a line that fails to parse
\* raises out of the loop and the outer handler returns (False, None).
ScanLine_raising(line) ==
  IF line.mentions /\ ~line.parse
       /\ line.phrase \in {"full close order placed",
                           "Ginie closing position"}
  THEN [success |-> "raised", log_data |-> None]
  ELSE ScanLine(line)

RECURSIVE ScanBack_raising(_, _, _)
ScanBack_raising(lines, lo, hi) ==
  IF lo > hi THEN [success |-> "False", log_data |-> None]
  ELSE IF lo = hi THEN ScanLine_raising(lines[hi])
  ELSE LET mid == (lo + hi) \div 2
           newer == ScanBack_raising(lines, mid + 1, hi)
       IN  IF newer.success # "False" THEN newer
           ELSE ScanBack_raising(lines, lo, mid)

ScanBack_abort(lines, lo, hi) ==
  LET res == ScanBack_raising(lines, lo, hi)
  IN  IF res.success = "raised"
      THEN [success |-> "False", log_data |-> None]
      ELSE res

\* check_logs_for_success: the scan of lines[lo..hi] newest first, returning
\* at the first line that returns.  The range is halved, the newer half
\* first, so that the evaluation is LOG_WINDOW lines wide and not deep.
RECURSIVE ScanBack(_, _, _)
ScanBack(lines, lo, hi) ==
  IF lo > hi THEN [success |-> "False", log_data |-> None]
  ELSE IF lo = hi THEN ScanLine(lines[hi])
  ELSE LET mid == (lo + hi) \div 2
           newer == ScanBack(lines, mid + 1, hi)
       IN  IF newer.success # "False" THEN newer
           ELSE ScanBack(lines, lo, mid)

\* A variant of the log check with a plausible slip: the whole file is
\* scanned instead of the last LOG_WINDOW lines.
check_logs_for_success_no_window(file) ==
  IF ~file.readable THEN [success |-> "False", log_data |-> None]
  ELSE ScanBack(file.lines, 1, Len(file.lines))

check_logs_for_success(file) ==
  IF ~file.readable THEN [success |-> "False", log_data |-> None]
  ELSE LET window == LastN(file.lines, LOG_WINDOW)
       IN  ScanBack(window, 1, Len(window))

\* check_server_log: grep -i 'sqdusdt.*booking profit' over the whole file;
\* the matching lines, None when there are none or grep fails.
GrepMatch(line) ==
  line.mentions /\ line.phrase = "booking profit" /\ line.symFirst

check_server_log(file) ==
  IF ~file.readable THEN None
  ELSE SelectSeq(file.lines, GrepMatch)

(***************************************************************************)
(* State after the set-up of main().                                       *)
(***************************************************************************)
Variants == {"basic", "live", "roi_monitor"}

Init ==
  /\ variant \in Variants
  /\ pc = "loop"
  /\ now = 0
  /\ log \in Logs
  /\ data = None
  /\ sqdusdt_pos = None
  /\ roi = None
  /\ threshold = None
  /\ roi_history = <<>>
  /\ last_roi = None
  /\ position_closed = FALSE
  /\ out = <<>>
  /\ summary = None
  /\ okTicks = 0
  /\ idx = 0
  /\ args = None
  /\ result = None

\* What the snapshot source may answer on a tick: anything, until MaxHistory
\* samples are recorded; from then on no answer that shows the symbol.
Answers ==
  {d \in {None} \cup AbsentSnapshots \cup MalformedSnapshots
            \cup PresentSnapshots :
     find_sqdusdt_position(d).status = "found"
       => Len(roi_history) < MaxHistory}

(***************************************************************************)
(* monitor_sqdusdt.py                                                      *)
(***************************************************************************)
\* One pass of "while True" from the time check to the append of the sample
\* (or to the break / the exception that leaves the loop).
BasicLoop(d) ==
  /\ variant = "basic" /\ pc = "loop"
  /\ IF now > MAX_MONITORING_TIME
     THEN /\ out' = <<E0("time_limit")>>
          /\ pc' = "report"
          /\ UNCHANGED <<data, sqdusdt_pos, roi, threshold, roi_history,
                         position_closed, okTicks>>
     ELSE LET f == find_sqdusdt_position(d)
              fetchmsg == IF d = None THEN <<E0("fetch_error")>> ELSE <<>>
          IN  /\ data' = d
              /\ IF f.status = "KeyError"
                 THEN /\ out' = <<E0("error")>>
                      /\ pc' = "crashed"
                      /\ UNCHANGED <<sqdusdt_pos, roi, threshold, roi_history,
                                     position_closed, okTicks>>
                 ELSE IF f.status = "none"
                 THEN /\ sqdusdt_pos' = None
                      /\ out' = fetchmsg \o <<E0("not_found_warning")>>
                      /\ position_closed' = TRUE
                      /\ pc' = "report"
                      /\ UNCHANGED <<roi, threshold, roi_history, okTicks>>
                 ELSE LET pos == f.pos[1]
                      IN  /\ sqdusdt_pos' = f.pos
                          /\ IF RoiFields \subseteq pos.has
                                /\ "mode" \in pos.has
                             THEN /\ roi' = Some(RoiOf(pos))
                                  /\ threshold' = Some(threshold_basic(pos.mode))
                                  /\ roi_history' =
                                       append(roi_history, RoiOf(pos))
                                  /\ okTicks' = okTicks + 1
                                  /\ out' = <<>>
                                  /\ pc' = "appended"
                                  /\ UNCHANGED position_closed
                             ELSE /\ out' = <<E0("error")>>
                                  /\ pc' = "crashed"
                                  /\ UNCHANGED <<roi, threshold, roi_history,
                                                 position_closed, okTicks>>
  /\ UNCHANGED <<args, result>>
  /\ UNCHANGED <<variant, now, log, last_roi, summary, idx>>

\* From the threshold test to the end of the pass.
BasicAfterAppend ==
  /\ variant = "basic" /\ pc = "appended"
  /\ IF roi[1] >= threshold[1]
     THEN /\ out' = Append(out, Ev("threshold_hit", roi, threshold))
          /\ now' = Advance(now, HIT_SLEEP)
          /\ position_closed' = TRUE
          /\ pc' = "report"
          /\ UNCHANGED last_roi
     ELSE /\ out' = Append(out, Ev("progress", roi,
                                   Some(threshold[1] - roi[1])))
          /\ last_roi' = roi
          /\ pc' = "sleep"
          /\ UNCHANGED <<now, position_closed>>
  /\ UNCHANGED <<args, result>>
  /\ UNCHANGED <<variant, log, data, sqdusdt_pos, roi, threshold, roi_history,
                 summary, okTicks, idx>>

BasicSleep ==
  /\ variant = "basic" /\ pc = "sleep"
  /\ now' = Advance(now, CHECK_INTERVAL)
  /\ pc' = "loop"
  /\ UNCHANGED <<args, result>>
  /\ UNCHANGED <<variant, log, data, sqdusdt_pos, roi, threshold, roi_history,
                 last_roi, position_closed, out, summary, okTicks, idx>>

\* The final report after the loop.  Formatting last_roi when it is None
\* raises TypeError, which ends main() in the handler of __main__.
BasicReport ==
  /\ variant = "basic" /\ pc = "report"
  /\ LET head == Append(out, E0("session_complete"))
         progression == IF roi_history # <<>> THEN Some(roi_history) ELSE None
     IN  IF position_closed
         THEN IF last_roi = None
              THEN /\ out' = head \o <<E0("position_closed_ok"), E0("error")>>
                   /\ pc' = "crashed"
                   /\ UNCHANGED summary
              ELSE /\ out' = head
                        \o <<E0("position_closed_ok"),
                             Ev("final_roi", last_roi, None),
                             IF check_server_log(log) # None
                             THEN E0("confirmed_in_log")
                             ELSE E0("check_log_warning")>>
                   /\ summary' = progression
                   /\ pc' = "done"
         ELSE /\ out' = head \o <<E0("timed_out")>>
                    \o (IF Truthy(last_roi)
                        THEN <<Ev("last_roi_shortfall", last_roi,
                                  Some(threshold[1] - last_roi[1]))>>
                        ELSE <<>>)
              /\ summary' = progression
              /\ pc' = "done"
  /\ UNCHANGED <<args, result>>
  /\ UNCHANGED <<variant, now, log, data, sqdusdt_pos, roi, threshold,
                 roi_history, last_roi, position_closed, okTicks, idx>>

\* KeyboardInterrupt anywhere in main(): caught in __main__.
BasicInterrupt ==
  /\ variant = "basic" /\ pc \in {"loop", "appended", "sleep", "report"}
  /\ out' = Append(out, E0("stopped_by_user"))
  /\ pc' = "stopped"
  /\ UNCHANGED <<args, result>>
  /\ UNCHANGED <<variant, now, log, data, sqdusdt_pos, roi, threshold,
                 roi_history, last_roi, position_closed, summary, okTicks,
                 idx>>

(***************************************************************************)
(* monitor_sqdusdt_live.py                                                 *)
(***************************************************************************)
\* The status line of a tick: [HIT], [CRITICAL], [CLOSE] or the plain line.
\* format(x, '3.0f') of x = n / d: the nearest integer, ties to even.
RoundHalfEven(n, d) ==
  LET q == n \div d
      rem == n - q * d
  IN  IF 2 * rem > d THEN q + 1
      ELSE IF 2 * rem < d THEN q
      ELSE IF q % 2 = 0 THEN q ELSE q + 1

LiveStatus(r) ==
  LET gap == THRESHOLD - r
  IN  IF r >= threshold_live("any") THEN Ev("hit", Some(r), None)
      ELSE IF gap <= 50 THEN Ev("critical", Some(r), Some(gap))
      ELSE IF gap <= 100 THEN Ev("close", Some(r), Some(gap))
      ELSE EvP("progress", Some(r), Some(gap),
               Some(RoundHalfEven(r * 100, THRESHOLD)))

\* The report when the symbol is gone: the success block only when the log
\* check returned a truthy status (True or 'closing').
LiveClosedReport ==
  LET res == check_logs_for_success(log)
  IN  <<E0("closed_not_found")>>
        \o (IF res.success # "False"
            THEN <<Ev("success", IF Truthy(last_roi) THEN last_roi ELSE None,
                      None)>>
            ELSE <<>>)
        \o <<E0("completed")>>

\* One pass of "while True" inside the try, up to the append of the sample,
\* the continue after a failed fetch, the break, or the except handler.
LiveLoop(d) ==
  /\ variant = "live" /\ pc = "loop"
  /\ data' = d
  /\ IF d = None
     THEN /\ out' = <<E0("fetch_error")>>
          /\ pc' = "sleep"
          /\ UNCHANGED <<sqdusdt_pos, roi, threshold, roi_history, okTicks>>
     ELSE LET f == find_sqdusdt_position(d)
          IN  IF f.status = "KeyError"
              THEN /\ out' = <<E0("error")>>
                   /\ pc' = "errsleep"
                   /\ UNCHANGED <<sqdusdt_pos, roi, threshold, roi_history,
                                  okTicks>>
              ELSE IF f.status = "none"
              THEN /\ sqdusdt_pos' = None
                   /\ out' = LiveClosedReport
                   /\ pc' = "done"
                   /\ UNCHANGED <<roi, threshold, roi_history, okTicks>>
              ELSE LET pos == f.pos[1]
                   IN  /\ sqdusdt_pos' = f.pos
                       /\ IF RoiFields \subseteq pos.has
                          THEN /\ roi' = Some(RoiOf_live(pos))
                               /\ threshold' = Some(threshold_live(pos.mode))
                               /\ roi_history' =
                                    append(roi_history, RoiOf_live(pos))
                               /\ okTicks' = okTicks + 1
                               /\ out' = <<>>
                               /\ pc' = "appended"
                          ELSE /\ out' = <<E0("error")>>
                               /\ pc' = "errsleep"
                               /\ UNCHANGED <<roi, threshold, roi_history,
                                              okTicks>>
  /\ UNCHANGED <<args, result>>
  /\ UNCHANGED <<variant, now, log, last_roi, position_closed, summary, idx>>

\* From the in-progress log check to "last_roi = roi".
LiveAfterAppend ==
  /\ variant = "live" /\ pc = "appended"
  /\ out' = Append(out, LiveStatus(roi[1]))
  /\ last_roi' = roi
  /\ pc' = "sleep"
  /\ UNCHANGED <<args, result>>
  /\ UNCHANGED <<variant, now, log, data, sqdusdt_pos, roi, threshold,
                 roi_history, position_closed, summary, okTicks, idx>>

\* time.sleep(CHECK_INTERVAL), in the try block or in the except handler.
LiveSleep ==
  /\ variant = "live" /\ pc \in {"sleep", "errsleep"}
  /\ now' = Advance(now, LIVE_CHECK_INTERVAL)
  /\ pc' = "loop"
  /\ UNCHANGED <<args, result>>
  /\ UNCHANGED <<variant, log, data, sqdusdt_pos, roi, threshold, roi_history,
                 last_roi, position_closed, out, summary, okTicks, idx>>

\* roi_history[:10]
SummaryPrefix(h) == SubSeq(h, 1, Min(Len(h), SUMMARY_LIMIT))

\* KeyboardInterrupt inside the try block.
LiveInterrupt ==
  /\ variant = "live" /\ pc \in {"loop", "appended", "sleep"}
  /\ out' = Append(out, E0("stopped_by_user"))
  /\ summary' = IF roi_history # <<>> THEN Some(SummaryPrefix(roi_history))
                ELSE None
  /\ pc' = "stopped"
  /\ UNCHANGED <<args, result>>
  /\ UNCHANGED <<variant, now, log, data, sqdusdt_pos, roi, threshold,
                 roi_history, last_roi, position_closed, okTicks, idx>>

\* KeyboardInterrupt during the sleep of the except handler: nothing catches
\* it and main() ends with the traceback.
LiveInterruptInHandler ==
  /\ variant = "live" /\ pc = "errsleep"
  /\ pc' = "crashed"
  /\ UNCHANGED <<args, result>>
  /\ UNCHANGED <<variant, now, log, data, sqdusdt_pos, roi, threshold,
                 roi_history, last_roi, position_closed, out, summary,
                 okTicks, idx>>

(***************************************************************************)
(* roi_monitor.py                                                          *)
(***************************************************************************)
RoiMonitorFetch(d) ==
  /\ variant = "roi_monitor" /\ pc = "loop"
  /\ data' = d
  /\ IF d = None
     THEN /\ out' = <<E0("fetch_error"), E0("error")>>
          /\ pc' = "exited"
          /\ UNCHANGED idx
     ELSE /\ out' = <<>>
          /\ pc' = "rows"
          /\ idx' = 1
  /\ UNCHANGED <<args, result>>
  /\ UNCHANGED <<variant, now, log, sqdusdt_pos, roi, threshold, roi_history,
                 last_roi, position_closed, summary, okTicks>>

\* One pass of "for pos in positions", or the end of the report.
RoiMonitorRow ==
  /\ variant = "roi_monitor" /\ pc = "rows"
  /\ LET positions == data[1].positions
     IN  IF idx > Len(positions)
         THEN /\ pc' = "done"
              /\ UNCHANGED <<sqdusdt_pos, roi, threshold, out, idx>>
         ELSE LET pos == positions[idx]
                  r == calculate_roi_roi_monitor(pos.entry_price,
                         pos.highest_price, pos.remaining_qty, pos.side,
                         pos.leverage).roi
                  t == threshold_roi_monitor(pos.mode)
              IN  IF AllFields \subseteq pos.has
                  THEN /\ sqdusdt_pos' = Some(pos)
                       /\ roi' = Some(r)
                       /\ threshold' = Some(t)
                       /\ out' = Append(out,
                            IF r >= t THEN Ev("threshold_hit", Some(r),
                                              Some(r - t))
                            ELSE Ev("waiting", Some(r), Some(t - r)))
                       /\ idx' = idx + 1
                       /\ pc' = "rows"
                  ELSE /\ pc' = "crashed"
                       /\ UNCHANGED <<sqdusdt_pos, roi, threshold, out, idx>>
  /\ UNCHANGED <<args, result>>
  /\ UNCHANGED <<variant, now, log, data, roi_history, last_roi,
                 position_closed, summary, okTicks>>

(***************************************************************************)
(* Specifications.                                                         *)
(***************************************************************************)
BasicTick == \E d \in Answers : BasicLoop(d)
LiveTick == \E d \in Answers : LiveLoop(d)
RoiMonitorMain == \E d \in Answers : RoiMonitorFetch(d)

\* The steps the interpreter takes by itself.
Step ==
  \/ BasicTick
  \/ LiveTick
  \/ RoiMonitorMain
  \/ BasicAfterAppend
  \/ BasicSleep
  \/ BasicReport
  \/ LiveAfterAppend
  \/ LiveSleep
  \/ RoiMonitorRow

\* The operator's interrupt.
Interrupt == BasicInterrupt \/ LiveInterrupt \/ LiveInterruptInHandler

Next == Step \/ Interrupt

Spec == Init /\ [][Next]_vars

\* The interpreter always takes its next step; the interrupt may never come.
FairSpec == Spec /\ WF_vars(Step)

(***************************************************************************)
(* The pure functions, called on their own: a run of CalcSpec picks one    *)
(* argument and applies one function to it.                                *)
(***************************************************************************)
RoiArgs ==
  [kind : {"roi"}, entry : {0, 100, 2499}, current : {100, 110, 2499, 2701},
   qty : {-1, 0, 1, 10}, side : {"LONG", "SHORT"}, leverage : {0, 1, 5}]

\* A line carrying the phrase and the symbol text that json.loads rejects, a
\* line of another symbol that mentions SQDUSDT, and n lines of padding.
BadLine == Line(FALSE, "", TRUE, "full close order placed", FALSE)
ForeignLine == Line(TRUE, "BTCUSDT", TRUE, "full close order placed", FALSE)
Pad(n) == [i \in 1..n |-> OtherLine]

LogArgs ==
  [kind : {"log"},
   file : Logs \cup
          {LogFile(r, l) :
             r \in BOOLEAN,
             l \in {<<ClosingLine, FullCloseLine>>,
                    <<FullCloseLine, BadLine>>,
                    <<ClosingLine, BadLine, ForeignLine>>,
                    <<BadLine>>, <<ForeignLine>>,
                    <<BookingLine, BadLine>>,
                    <<FullCloseLine>> \o Pad(LOG_WINDOW),
                    <<FullCloseLine>> \o Pad(LOG_WINDOW - 1),
                    <<FullCloseLine, ClosingLine>> \o Pad(LOG_WINDOW - 1)}}]

CalcInit ==
  /\ variant = "calc"
  /\ pc = "call"
  /\ now = 0
  /\ log = LogFile(FALSE, <<>>)
  /\ data = None
  /\ sqdusdt_pos = None
  /\ roi = None
  /\ threshold = None
  /\ roi_history = <<>>
  /\ last_roi = None
  /\ position_closed = FALSE
  /\ out = <<>>
  /\ summary = None
  /\ okTicks = 0
  /\ idx = 0
  /\ args \in RoiArgs \cup LogArgs
  /\ result = None

Return(fn, value) ==
  /\ pc = "call"
  /\ pc' = fn
  /\ result' = Some(value)
  /\ UNCHANGED <<variant, now, log, data, sqdusdt_pos, roi, threshold,
                 roi_history, last_roi, position_closed, out, summary,
                 okTicks, idx, args>>

CallRoiMonitorCalc ==
  /\ args.kind = "roi"
  /\ LET r == calculate_roi_roi_monitor(args.entry, args.current, args.qty,
                                        args.side, args.leverage)
     IN  Return("roi_monitor.calculate_roi",
                [roi |-> r.roi, net_pnl |-> Some(r.net_pnl)])

CallBasicCalc ==
  /\ args.kind = "roi"
  /\ Return("monitor_sqdusdt.calculate_roi",
            [roi |-> calculate_roi(args.entry, args.current, args.qty,
                                   args.side, args.leverage),
             net_pnl |-> None])

CallLiveCalc ==
  /\ args.kind = "roi"
  /\ Return("monitor_sqdusdt_live.calculate_roi",
            [roi |-> calculate_roi_live(args.entry, args.current, args.qty,
                                        args.side, args.leverage),
             net_pnl |-> None])

\* The three implementations applied to the same arguments.
CallEachCalc ==
  /\ args.kind = "roi"
  /\ Return("calculate_roi",
            [roi_monitor |->
               calculate_roi_roi_monitor(args.entry, args.current, args.qty,
                                         args.side, args.leverage).roi,
             monitor_sqdusdt |->
               calculate_roi(args.entry, args.current, args.qty, args.side,
                             args.leverage),
             monitor_sqdusdt_live |->
               calculate_roi_live(args.entry, args.current, args.qty,
                                  args.side, args.leverage)])

CallCheckLogs ==
  /\ args.kind = "log"
  /\ Return("check_logs_for_success", check_logs_for_success(args.file))

CallCheckServerLog ==
  /\ args.kind = "log"
  /\ Return("check_server_log", check_server_log(args.file))

CalcNext ==
  \/ CallRoiMonitorCalc
  \/ CallBasicCalc
  \/ CallLiveCalc
  \/ CallEachCalc
  \/ CallCheckLogs
  \/ CallCheckServerLog

CalcSpec == CalcInit /\ [][CalcNext]_vars

(***************************************************************************)
(* Vocabulary of the claims.                                               *)
(***************************************************************************)
Monitors == {"basic", "live"}

\* The session state of section 4.1, read off the run: the loop is ACTIVE
\* until it is left; the report that follows decides the terminal state.
Confirmed ==
  \/ variant = "basic" /\ "confirmed_in_log" \in Kinds(out)
  \/ variant = "live" /\ "success" \in Kinds(out)

State ==
  IF variant = "basic" /\ pc \in {"report", "done"} /\ ~position_closed
    THEN "TIMED_OUT"
  ELSE IF pc = "done" /\ Confirmed THEN "CLOSED_CONFIRMED"
  ELSE IF pc = "done" THEN "CLOSED_UNCONFIRMED"
  ELSE IF variant = "basic" /\ pc = "report" THEN "CONFIRMING"
  ELSE IF pc \in {"stopped", "crashed", "exited"} THEN "ENDED"
  ELSE "ACTIVE"

\* A step that is a tick of a monitor loop whose fetch returned None.
FailedFetchTick ==
  /\ variant \in Monitors /\ pc = "loop" /\ pc' # "stopped"
  /\ ~(variant = "basic" /\ now > MAX_MONITORING_TIME)
  /\ data' = None

\* C1: a tick whose snapshot query fails leaves the session ACTIVE with
\* roi_history and last_roi unchanged, emits a fetch-error event, is not taken
\* for a closure, and the loop goes on to its sleep and the next tick.
C1_FailedFetchIsTransient ==
  [][FailedFetchTick =>
       /\ pc' = "sleep"
       /\ ~position_closed'
       /\ roi_history' = roi_history /\ last_roi' = last_roi
       /\ "fetch_error" \in Kinds(out')]_vars

\* The closure phrases each monitor looks for in the log.
ClosurePhrases ==
  IF variant = "basic" THEN {"booking profit"}
  ELSE {"full close order placed", "Ginie closing position"}

\* Section 4.3: a line of the window whose symbol field is the tracked symbol
\* and which carries a closure phrase.
ClosureEvidence ==
  /\ log.readable
  /\ \E i \in DOMAIN LastN(log.lines, LOG_WINDOW) :
       LET line == LastN(log.lines, LOG_WINDOW)[i]
       IN  line.parse /\ line.symbol = "SQDUSDT"
             /\ line.phrase \in ClosurePhrases

\* The run ended after the symbol, seen before, was absent from a snapshot
\* that was fetched successfully.
EndedByDisappearance ==
  /\ variant \in Monitors /\ pc \in {"done", "crashed"}
  /\ roi_history # <<>> /\ data # None /\ sqdusdt_pos = None

SuccessKinds == {"success", "position_closed_ok", "confirmed_in_log"}

\* C2: after present-then-absent the session ends CLOSED_CONFIRMED exactly
\* when the log holds a matching closure line, else CLOSED_UNCONFIRMED, and
\* without a match nothing reports a successful close.
C2_ConfirmedIffLogMatch ==
  EndedByDisappearance =>
    /\ State = (IF ClosureEvidence THEN "CLOSED_CONFIRMED"
                ELSE "CLOSED_UNCONFIRMED")
    /\ ~ClosureEvidence => Kinds(out) \cap SuccessKinds = {}

\* The tick in progress has recorded a sample at or above its threshold.
HitTick ==
  /\ variant \in Monitors /\ pc = "appended"
  /\ roi[1] >= threshold[1]

\* C3: a threshold hit does not end the session or mark the position closed;
\* the tick completes and the loop goes on to its sleep and the next poll.
C3_HitKeepsPolling ==
  [][(HitTick /\ pc' # "stopped") => (pc' = "sleep" /\ ~position_closed')]_vars

Terminated == pc \in {"done", "stopped", "crashed", "exited"}

\* C4: every monitoring session eventually leaves its loop for a terminal
\* state (at the latest by timing out); no monitor polls forever.
C4_SessionTerminates == <>Terminated

AllBelowThreshold ==
  \A i \in DOMAIN roi_history : roi_history[i] < THRESHOLD

\* C5: when ROI stayed below the threshold and the maximum monitoring time
\* has elapsed, the session is TIMED_OUT and roi_history holds one sample per
\* tick that fetched the snapshot with the symbol present.
C5_TimedOutWithOneSamplePerTick ==
  (/\ variant \in Monitors /\ now > MAX_MONITORING_TIME
   /\ pc \notin {"loop", "stopped"} /\ AllBelowThreshold)
    => (State = "TIMED_OUT" /\ Len(roi_history) = okTicks)

\* The points of a run between ticks and after the loop (not inside a tick,
\* not after an interrupt or a crash).
TickCompleted ==
  variant \in Monitors /\ pc \in {"loop", "sleep", "errsleep", "report", "done"}

\* C6: between ticks and in every terminal state last_roi is the most recent
\* sample of roi_history (so it is not None once a sample exists), the tick of
\* a threshold hit included.
C6_LastRoiIsLastSample ==
  (TickCompleted /\ roi_history # <<>>)
    => last_roi = Some(roi_history[Len(roi_history)])

\* A step that is a tick of a monitor loop whose snapshot holds a position
\* record without one of its fields.
MalformedTick ==
  /\ variant \in Monitors /\ pc = "loop" /\ pc' # "stopped"
  /\ ~(variant = "basic" /\ now > MAX_MONITORING_TIME)
  /\ data' \in MalformedSnapshots

InLoop == pc \in {"loop", "appended", "sleep", "errsleep"}

\* C7: a snapshot with a position record that lacks a field does not end the
\* loop or the process; the monitor stays in its loop and polls again.
C7_MalformedIsTransient == [][MalformedTick => InLoop']_vars

\* The run was ended by a KeyboardInterrupt.
Interrupted ==
  /\ variant \in Monitors
  /\ \/ pc = "stopped"
     \/ variant = "live" /\ pc = "crashed"

\* C8: after an interrupt the final summary holds every sample recorded.
C8_InterruptSummaryIsFullHistory ==
  (Interrupted /\ roi_history # <<>>) => summary = Some(roi_history)

\* The loop was left for the final report (not by an interrupt).
SessionOver ==
  \/ variant = "basic" /\ "session_complete" \in Kinds(out)
       /\ pc \in {"done", "crashed"}
  \/ variant = "live" /\ pc = "done"

TerminalKinds ==
  {"confirmed_in_log", "check_log_warning", "timed_out", "completed"}

\* C9: every session that ends closed or timed out emits its terminal report
\* event, also when no sample was recorded (last_roi still None).
C9_TerminalReportEmitted ==
  SessionOver => (pc = "done" /\ Kinds(out) \cap TerminalKinds # {})

\* The threshold table of the specification.
ConfiguredThreshold(mode) ==
  CASE mode = "ultra_fast" -> 300
    [] mode = "scalp" -> 500
    [] mode = "swing" -> 800
    [] mode = "position" -> 1000
    [] OTHER -> 800

\* A position has just been evaluated against its threshold.
Evaluated ==
  /\ sqdusdt_pos # None /\ threshold # None
  /\ \/ variant \in Monitors /\ pc = "appended"
     \/ variant = "roi_monitor" /\ pc = "rows" /\ idx > 1

\* C10: the threshold applied to a position is the configured value of its
\* mode, and the default for a mode that is not in the table.
C10_ThresholdOfMode ==
  (Evaluated /\ "mode" \in sqdusdt_pos[1].has)
    => threshold[1] = ConfiguredThreshold(sqdusdt_pos[1].mode)

(***************************************************************************)
(* Claims on the ROI calculator, under CalcSpec.                           *)
(***************************************************************************)
ReturnedRoi ==
  pc \in {"roi_monitor.calculate_roi", "monitor_sqdusdt.calculate_roi",
          "monitor_sqdusdt_live.calculate_roi"}

Notional == args.entry * args.qty

\* Section 4.2, in units of 1/FEE_DEN: gross PnL less the fee on both legs.
ExpectedNetPnl ==
  (IF args.side = "LONG" THEN (args.current - args.entry) * args.qty
   ELSE (args.entry - args.current) * args.qty) * FEE_DEN
    - FEE_NUM * (args.entry * args.qty + args.current * args.qty)

ExpectedRoi == (ExpectedNetPnl * args.leverage) \div Notional

Scenario ==
  [kind |-> "roi", entry |-> 100, current |-> 110, qty |-> 10,
   side |-> "LONG", leverage |-> 5]

\* C11: with a positive notional roi_monitor's calculate_roi returns the net
\* PnL (gross less the fee on both legs) and roi = net_pnl * leverage /
\* notional * 100; the scenario 100 -> 110, 10 units, LONG, 5x gives
\* net_pnl 99.16 and roi 49.58.
C11_RoiFormula ==
  (pc = "roi_monitor.calculate_roi" /\ Notional > 0)
    => /\ result[1].net_pnl = Some(ExpectedNetPnl)
       /\ result[1].roi = ExpectedRoi
       /\ args = Scenario
            => (result[1].net_pnl = Some(991600) /\ result[1].roi = 4958)

C11_Witness ==
  /\ pc = "roi_monitor.calculate_roi" /\ args = Scenario
  /\ result = Some([roi |-> 4958, net_pnl |-> Some(991600)])

\* C12: a notional that is not positive yields roi 0 and net_pnl 0, and a
\* leverage of 0 yields roi 0; the call returns for every argument.
C12_NoDivisionByZero ==
  ReturnedRoi =>
    /\ Notional <= 0 =>
         (result[1].roi = 0 /\ result[1].net_pnl \in {None, Some(0)})
    /\ (Notional > 0 /\ args.leverage = 0) => result[1].roi = 0

C12_Witness ==
  /\ pc = "roi_monitor.calculate_roi"
  /\ args.entry = 0 /\ args.qty = 10 /\ args.current = 110
  /\ result = Some([roi |-> 0, net_pnl |-> Some(0)])

Breakeven ==
  /\ pc = "roi_monitor.calculate_roi"
  /\ args.current = args.entry /\ args.side = "LONG"
  /\ args.qty > 0 /\ args.entry > 0

\* C13 as stated: at breakeven the ROI is negative for every leverage >= 0.
C13_BreakevenNegativeAnyLeverage ==
  (Breakeven /\ args.leverage >= 0) => result[1].roi < 0

\* C13: at breakeven the ROI is negative for every leverage > 0 (with
\* leverage 0 it is 0).
C13_BreakevenNegative ==
  Breakeven =>
    IF args.leverage > 0 THEN result[1].roi < 0 ELSE result[1].roi = 0

C13_Witness == Breakeven /\ args.leverage = 5 /\ result[1].roi = -40

(***************************************************************************)
(* Claims on log correlation and on the events of a tick.                  *)
(***************************************************************************)
\* A line of the log whose structured symbol field is the tracked symbol and
\* which carries one of the monitor's closure phrases.
FieldMatch(line) ==
  line.parse /\ line.symbol = "SQDUSDT" /\ line.phrase \in ClosurePhrases

\* C14: a confirmation is reported only when the log holds a line whose
\* symbol field equals the tracked symbol and which carries a closure phrase;
\* a line that only mentions the symbol text never confirms.
C14_ConfirmationNeedsSymbolField ==
  (variant \in Monitors /\ Confirmed)
    => \E i \in DOMAIN log.lines : FieldMatch(log.lines[i])

\* The lines of the window of the last LOG_WINDOW lines, by index in the
\* file, that name the tracked symbol in their symbol field and carry one of
\* the two phrases check_logs_for_success looks for.
WindowMatches ==
  {i \in DOMAIN args.file.lines :
     /\ i > Len(args.file.lines) - LOG_WINDOW
     /\ args.file.lines[i].parse
     /\ args.file.lines[i].symbol = "SQDUSDT"
     /\ args.file.lines[i].phrase \in {"full close order placed",
                                       "Ginie closing position"}}

Absent == [success |-> "False", log_data |-> None]

\* C15: check_logs_for_success returns the classification of the most recent
\* matching line of the last LOG_WINDOW lines (True for a completed close,
\* 'closing' for one in progress), whatever older lines and lines outside the
\* window say, and (False, None) when the window holds no matching line.
C15_MostRecentMatchInWindow ==
  (pc = "check_logs_for_success" /\ args.file.readable) =>
    IF WindowMatches = {} THEN result[1] = Absent
    ELSE LET m == CHOOSE i \in WindowMatches :
                    \A j \in WindowMatches : j <= i
             line == args.file.lines[m]
         IN  /\ result[1].log_data = Some(line)
             /\ result[1].success =
                  (IF line.phrase = "full close order placed" THEN "True"
                   ELSE "closing")

C15_Witness ==
  /\ pc = "check_logs_for_success" /\ args.file.readable
  /\ args.file.lines = <<FullCloseLine, ClosingLine>> \o Pad(LOG_WINDOW - 1)
  /\ result[1].success = "closing"

\* C16: an unreadable log makes both log checks return absent, and a line of
\* the window that cannot be parsed does not stop check_logs_for_success
\* from finding a matching line older than it.
C16_UnreadableOrUnparseable ==
  /\ (pc = "check_logs_for_success" /\ ~args.file.readable)
       => result = Some(Absent)
  /\ (pc = "check_server_log" /\ ~args.file.readable) => result = Some(None)
  /\ (pc = "check_logs_for_success" /\ args.file.readable
        /\ \E i \in DOMAIN args.file.lines : ~args.file.lines[i].parse)
       => (result[1].success = "False" <=> WindowMatches = {})

C16_Witness ==
  /\ pc = "check_logs_for_success"
  /\ args.file = LogFile(TRUE, <<FullCloseLine, BadLine>>)
  /\ result = Some([success |-> "True", log_data |-> Some(FullCloseLine)])

\* The matching lines of the log window of the running monitor, by index.
LogMatches ==
  {i \in DOMAIN log.lines :
     /\ log.readable
     /\ i > Len(log.lines) - LOG_WINDOW
     /\ FieldMatch(log.lines[i])}

\* C17: when the symbol has vanished, the success report is produced only if
\* the most recent matching log line says the close is completed; a match
\* that says the close is in progress ('closing') does not produce it.
C17_SuccessOnlyForCompletedClose ==
  (variant = "live" /\ pc = "done" /\ "success" \in Kinds(out)) =>
    \E i \in LogMatches :
      /\ \A j \in LogMatches : j <= i
      /\ log.lines[i].phrase = "full close order placed"

\* The status events of the tick in progress (of the rows printed so far in
\* roi_monitor.py).
HitKinds == {"hit", "threshold_hit"}
StatusKinds == HitKinds \cup {"critical", "close", "progress", "waiting"}
IsStatus(e) == e.kind \in StatusKinds
StatusEvents == SelectSeq(out, IsStatus)

\* The status of a position that is present has just been printed.
StatusPrinted ==
  /\ roi # None /\ threshold # None
  /\ \/ variant = "live" /\ pc = "sleep" /\ data # None /\ sqdusdt_pos # None
     \/ variant = "roi_monitor" /\ pc = "rows" /\ idx > 1

\* C18: a tick with the symbol present emits exactly one status event: a
\* threshold hit, carrying overshoot = roi - threshold >= 0, if and only if
\* roi >= threshold, else a progress event carrying gap = threshold - roi > 0
\* and a progress below 100%.
C18_OneStatusEventPerTick ==
  StatusPrinted =>
    /\ Len(StatusEvents) = (IF variant = "live" THEN 1 ELSE idx - 1)
    /\ LET e == StatusEvents[Len(StatusEvents)]
       IN  /\ e.roi = roi
           /\ IF roi[1] >= threshold[1]
              THEN /\ e.kind \in HitKinds
                   /\ e.aux = Some(roi[1] - threshold[1])
              ELSE /\ e.kind \notin HitKinds
                   /\ e.aux = Some(threshold[1] - roi[1])
                   /\ e.aux[1] > 0
                   /\ e.progress # None
                   /\ e.progress[1] < 100

\* C19: a session that times out after at least one sample reports the last
\* known ROI and the shortfall threshold - last_roi, whatever the value of
\* last_roi (0 and negative values included).
C19_TimedOutReportsShortfall ==
  (variant = "basic" /\ pc = "done" /\ State = "TIMED_OUT"
     /\ roi_history # <<>>)
    => /\ last_roi = Some(roi_history[Len(roi_history)])
       /\ \E i \in DOMAIN out :
            /\ out[i].kind = "last_roi_shortfall"
            /\ out[i].roi = last_roi
            /\ out[i].aux = Some(threshold[1] - last_roi[1])

\* C20: when an interrupt ends the loop, the append to roi_history and the
\* update of last_roi of the current tick have both happened or neither has:
\* last_roi is the last sample of roi_history (None while there is none).
C20_InterruptLeavesWholeTicks ==
  (variant \in Monitors /\ pc = "stopped") =>
    IF roi_history = <<>> THEN last_roi = None
    ELSE last_roi = Some(roi_history[Len(roi_history)])

(***************************************************************************)
(* Claims on the history, the record used and the life cycle.              *)
(***************************************************************************)
\* C21: roi_history only grows, by one sample per tick, at its end: what was
\* recorded before a step is a prefix of what is recorded after it, and the
\* new sample is the ROI of the tick.
C21_HistoryAppendOnly ==
  [][(variant \in Monitors) =>
       (\/ roi_history' = roi_history
        \/ /\ pc = "loop"
           /\ Len(roi_history') = Len(roi_history) + 1
           /\ SubSeq(roi_history', 1, Len(roi_history)) = roi_history
           /\ roi_history'[Len(roi_history')] = roi'[1])
    ]_vars

C21_Witness ==
  variant \in Monitors /\ roi_history = <<600, -8, 0>>

\* The first record of the snapshot that names the tracked symbol.
FirstTracked(positions) ==
  positions[CHOOSE i \in DOMAIN positions :
              /\ positions[i].symbol = "SQDUSDT"
              /\ \A j \in 1..(i - 1) : positions[j].symbol # "SQDUSDT"]

\* A tick has just computed its ROI from a snapshot.
Sampled == variant \in Monitors /\ pc = "appended"

\* C22: the record a tick uses is the first record of the snapshot with the
\* tracked symbol; later records with that symbol change nothing.
C22_FirstMatchUsed ==
  Sampled =>
    /\ sqdusdt_pos = Some(FirstTracked(data[1].positions))
    /\ roi = Some(IF variant = "live"
                  THEN RoiOf_live(FirstTracked(data[1].positions))
                  ELSE RoiOf(FirstTracked(data[1].positions)))
    /\ roi_history[Len(roi_history)] = roi[1]

C22_Witness ==
  /\ Sampled /\ data = Snapshot(<<POther, PMid, PHit>>)
  /\ sqdusdt_pos = Some(PMid) /\ roi = Some(600)

\* The life-cycle state of section 4.1, with the threshold hit of the tick
\* in progress, the end by an interrupt and the end by an uncaught exception
\* told apart.
Phase ==
  IF variant = "basic" /\ pc = "crashed" THEN "CRASHED"
  ELSE IF pc \in {"stopped", "crashed"} THEN "CANCELLED"
  ELSE IF State = "ACTIVE" /\ pc \in {"appended", "sleep"}
            /\ roi # None /\ threshold # None /\ data # None
            /\ sqdusdt_pos # None /\ roi[1] >= threshold[1]
       THEN "THRESHOLD_HIT"
  ELSE State

\* The transitions of the state diagram: a hit, polling on after it, the
\* confirmation (in one step where the code confirms at once), the timeout,
\* and the cancellation of section 6 from any state.
Diagram ==
  {<<"ACTIVE", "THRESHOLD_HIT">>, <<"THRESHOLD_HIT", "ACTIVE">>,
   <<"ACTIVE", "CONFIRMING">>, <<"THRESHOLD_HIT", "CONFIRMING">>,
   <<"CONFIRMING", "CLOSED_CONFIRMED">>,
   <<"CONFIRMING", "CLOSED_UNCONFIRMED">>,
   <<"ACTIVE", "CLOSED_CONFIRMED">>, <<"ACTIVE", "CLOSED_UNCONFIRMED">>,
   <<"ACTIVE", "TIMED_OUT">>, <<"THRESHOLD_HIT", "TIMED_OUT">>}
    \cup {<<s, "CANCELLED">> :
            s \in {"ACTIVE", "THRESHOLD_HIT", "CONFIRMING", "TIMED_OUT"}}

\* The loop has been left with a closed or timed-out outcome.
LoopLeft == variant \in Monitors /\ pc \in {"report", "done"}

\* C23: once the loop has reached a closed or timed-out outcome no snapshot
\* is queried, no sample is appended and last_roi does not change, and every
\* change of state is a transition of the state diagram.
C23_TerminalAbsorbingAndDiagramOnly ==
  [][(variant \in Monitors) =>
       /\ LoopLeft => /\ data' = data
                      /\ roi_history' = roi_history
                      /\ last_roi' = last_roi
       /\ Phase' = Phase \/ <<Phase, Phase'>> \in Diagram
    ]_vars

\* C24: the three calculate_roi implementations return the same ROI for the
\* same arguments, the notional <= 0 case included, and a call changes
\* nothing but its result.
C24_SameRoi ==
  [][(pc = "call" /\ pc' = "calculate_roi") =>
       /\ result'[1].roi_monitor = result'[1].monitor_sqdusdt
       /\ result'[1].monitor_sqdusdt = result'[1].monitor_sqdusdt_live
       /\ UNCHANGED <<variant, now, log, data, sqdusdt_pos, roi, threshold,
                      roi_history, last_roi, position_closed, out, summary,
                      okTicks, idx, args>>
    ]_vars

C24_Witness ==
  /\ pc = "calculate_roi" /\ args = Scenario
  /\ result = Some([roi_monitor |-> 4958, monitor_sqdusdt |-> 4958,
                    monitor_sqdusdt_live |-> 4958])

====
